---- MODULE Spec2Model ----
(***************************************************************************)
(* Analytics aggregation (DailyAnalytics -> CampaignAnalyticsSummary) and  *)
(* A/B test orchestration of advision-backend.                             *)
(*                                                                         *)
(* Units: percentages and ratios that the code rounds to two decimals are  *)
(* kept as integers in hundredths (avg_ctr = 333 is 3.33); money is kept   *)
(* in cents (spend = 10000 is 100.00).                                     *)
(***************************************************************************)
EXTENDS Integers, Sequences, FiniteSets, TLC

\* ------------------------------------------------------------------ bounds

\* dates of one campaign that the ingestion jobs report on: 1..MaxDate
MaxDate == 2

Dates == 1..MaxDate

\* counters a platform or the generation job reports for one day
\* (impressions, clicks, conversions, spend in cents)
Counters(i, c, v, s) == [impressions |-> i, clicks |-> c, conversions |-> v, spend |-> s]

ZeroCounters == Counters(0, 0, 0, 0)

MetricInputs ==
    { ZeroCounters,
      Counters(1000, 40, 4, 10000),
      Counters(2000, 60, 6, 15000),
      Counters(1000, 50, 10, 10000) }

\* ------------------------------------------------------------------ state

VARIABLES
    records,    \* DailyAnalytics rows of the campaign, keyed by date
    summary,    \* the campaign's CampaignAnalyticsSummary row
    dirty,      \* history: a row changed and no recompute has read the rows since
    lastOp,     \* history: the operation that produced this state
    job,        \* the two ingestion jobs when they run concurrently: per job its
                \* position, next date, and the summary and rows it has read
    test,       \* the ABTest row
    arms,       \* the ABTestVariation rows of the test, keyed by name
    abOp,       \* history: the A/B operation that produced this state
    abResult,   \* history: the 'status' (or error) the last analyze call returned
    setBy,      \* history: what the call that last saved the decision had observed
    req,        \* analyze requests in flight: per request its position and the
                \* ABTest object it holds in memory
    cmp,        \* one call of calculate_statistical_significance: its
                \* arguments and, once it has run, what came back
    table,      \* the DailyAnalytics table of the campaign as a list of rows,
                \* each with its date, in insertion order
    upsert,     \* per ingestion job, the upsert it is executing: its position,
                \* its key and counters, and the row its lookup found
    report      \* one weekly report request: the figures it computed and,
                \* once the view has run, the recommendations it returned

analyticsVars == <<records, summary, dirty, lastOp>>

abVars == <<test, arms, abOp, abResult, setBy, req>>

compareVars == <<cmp>>

upsertVars == <<table, upsert>>

reportVars == <<report>>

vars == <<records, summary, dirty, lastOp, job, test, arms, abOp, abResult, setBy, req,
          cmp, table, upsert, report>>

\* ------------------------------------------------------- derived metrics

\* Python round(n/d, 0) on the exact quotient: nearest, ties to even (d > 0, n >= 0)
RoundDiv(n, d) ==
    LET q == n \div d
        r == n % d
    IN  IF 2 * r < d THEN q
        ELSE IF 2 * r > d THEN q + 1
        ELSE IF q % 2 = 0 THEN q ELSE q + 1

\* round(clicks / impressions * 100, 2), in hundredths
Pct2(part, whole) == RoundDiv(part * 10000, whole)

\* round(float(spend) / count, 2), in cents
Cost2(spendCents, count) == RoundDiv(spendCents, count)

\* revenue assumed per conversion, in currency units
RevenuePerConversion == 50

\* round(conversions * 50 / float(spend), 2), in hundredths
Roas2(conversions, spendCents) ==
    RoundDiv(conversions * RevenuePerConversion * 10000, spendCents)

\* ------------------------------------------------------- DailyAnalytics

\* a DailyAnalytics row as objects.create(**defaults) builds it before save()
NewRow(m) ==
    [impressions |-> m.impressions, clicks |-> m.clicks,
     conversions |-> m.conversions, spend |-> m.spend,
     ctr |-> 0, cpc |-> 0, cpa |-> 0]

\* counters added onto those of the fetched row
AddCounters(row, m) ==
    [row EXCEPT !.impressions = @ + m.impressions, !.clicks = @ + m.clicks,
                !.conversions = @ + m.conversions, !.spend = @ + m.spend]

\* setattr of the four counters on a fetched row
SetCounters(row, m) ==
    [row EXCEPT !.impressions = m.impressions, !.clicks = m.clicks,
                !.conversions = m.conversions, !.spend = m.spend]

\* DailyAnalytics.save: the derived fields it assigns before the row is written
SaveRow(row) ==
    [row EXCEPT
        !.ctr = IF row.impressions > 0 THEN Pct2(row.clicks, row.impressions) ELSE @,
        !.cpc = IF row.clicks > 0 THEN Cost2(row.spend, row.clicks) ELSE @,
        !.cpa = IF row.conversions > 0 THEN Cost2(row.spend, row.conversions) ELSE @]

\* ------------------------------------------------- CampaignAnalyticsSummary

\* the row get_or_create(campaign=...) inserts: every field at its default
DefaultSummary ==
    [total_impressions |-> 0, total_clicks |-> 0, total_conversions |-> 0,
     total_spend |-> 0, avg_ctr |-> 0, avg_cpc |-> 0, avg_conversion_rate |-> 0,
     roas |-> 0, performance_score |-> 0]

RECURSIVE SumField(_, _, _)
SumField(rows, ds, field) ==
    IF ds = {} THEN 0
    ELSE LET d == CHOOSE x \in ds : TRUE
         IN  rows[d][field] + SumField(rows, ds \ {d}, field)

Min(a, b) == IF a < b THEN a ELSE b

\* a score whose thresholds are exclusive
CalculatePerformanceScoreStrict(s) ==
    LET ctrBand  == IF s.avg_ctr > 500 THEN 30
                    ELSE IF s.avg_ctr > 300 THEN 20
                    ELSE IF s.avg_ctr > 100 THEN 10 ELSE 0
        convBand == IF s.avg_conversion_rate > 1000 THEN 30
                    ELSE IF s.avg_conversion_rate > 500 THEN 20
                    ELSE IF s.avg_conversion_rate > 200 THEN 10 ELSE 0
        roasBand == IF s.roas > 500 THEN 40
                    ELSE IF s.roas > 300 THEN 30
                    ELSE IF s.roas > 200 THEN 20
                    ELSE IF s.roas > 100 THEN 10 ELSE 0
    IN  Min(ctrBand + convBand + roasBand, 100)

\* a score with every band doubled and no cap
CalculatePerformanceScoreDoubled(s) ==
    LET ctrBand  == IF s.avg_ctr >= 500 THEN 60
                    ELSE IF s.avg_ctr >= 300 THEN 40
                    ELSE IF s.avg_ctr >= 100 THEN 20 ELSE 0
        convBand == IF s.avg_conversion_rate >= 1000 THEN 60
                    ELSE IF s.avg_conversion_rate >= 500 THEN 40
                    ELSE IF s.avg_conversion_rate >= 200 THEN 20 ELSE 0
        roasBand == IF s.roas >= 500 THEN 80
                    ELSE IF s.roas >= 300 THEN 60
                    ELSE IF s.roas >= 200 THEN 40
                    ELSE IF s.roas >= 100 THEN 20 ELSE 0
    IN  ctrBand + convBand + roasBand

\* a score whose CTR band pays most for the lowest CTR
CalculatePerformanceScoreInverted(s) ==
    LET ctrBand  == IF s.avg_ctr >= 500 THEN 0
                    ELSE IF s.avg_ctr >= 300 THEN 10
                    ELSE IF s.avg_ctr >= 100 THEN 20 ELSE 30
        convBand == IF s.avg_conversion_rate >= 1000 THEN 30
                    ELSE IF s.avg_conversion_rate >= 500 THEN 20
                    ELSE IF s.avg_conversion_rate >= 200 THEN 10 ELSE 0
        roasBand == IF s.roas >= 500 THEN 40
                    ELSE IF s.roas >= 300 THEN 30
                    ELSE IF s.roas >= 200 THEN 20
                    ELSE IF s.roas >= 100 THEN 10 ELSE 0
    IN  Min(ctrBand + convBand + roasBand, 100)

\* CampaignAnalyticsSummary._calculate_performance_score
CalculatePerformanceScore(s) ==
    LET ctrBand  == IF s.avg_ctr >= 500 THEN 30
                    ELSE IF s.avg_ctr >= 300 THEN 20
                    ELSE IF s.avg_ctr >= 100 THEN 10 ELSE 0
        convBand == IF s.avg_conversion_rate >= 1000 THEN 30
                    ELSE IF s.avg_conversion_rate >= 500 THEN 20
                    ELSE IF s.avg_conversion_rate >= 200 THEN 10 ELSE 0
        roasBand == IF s.roas >= 500 THEN 40
                    ELSE IF s.roas >= 300 THEN 30
                    ELSE IF s.roas >= 200 THEN 20
                    ELSE IF s.roas >= 100 THEN 10 ELSE 0
    IN  Min(ctrBand + convBand + roasBand, 100)

\* update_metrics adding the new sums onto the stored totals
AggregateAccumulating(s, rows) ==
    LET ds == DOMAIN rows
    IN  [s EXCEPT !.total_impressions = @ + SumField(rows, ds, "impressions"),
                  !.total_clicks = @ + SumField(rows, ds, "clicks"),
                  !.total_conversions = @ + SumField(rows, ds, "conversions"),
                  !.total_spend = @ + SumField(rows, ds, "spend")]

\* the field values update_metrics assigns, given the rows its query returned
Aggregate(s, rows) ==
    LET ds == DOMAIN rows
        ti == SumField(rows, ds, "impressions")
        tc == SumField(rows, ds, "clicks")
        tv == SumField(rows, ds, "conversions")
        ts == SumField(rows, ds, "spend")
        s1 == [s EXCEPT !.total_impressions = ti, !.total_clicks = tc,
                        !.total_conversions = tv, !.total_spend = ts]
        s2 == [s1 EXCEPT !.avg_ctr = IF ti > 0 THEN Pct2(tc, ti) ELSE @]
        s3 == [s2 EXCEPT !.avg_cpc = IF tc > 0 THEN Cost2(ts, tc) ELSE @,
                         !.avg_conversion_rate = IF tc > 0 THEN Pct2(tv, tc) ELSE @]
        s4 == [s3 EXCEPT !.roas = IF ts > 0 THEN Roas2(tv, ts) ELSE @]
    IN  [s4 EXCEPT !.performance_score = CalculatePerformanceScore(s4)]

\* the database of one campaign as one value, so that a handler's calls compose
Db(rows, s, stale) == [rows |-> rows, summary |-> s, dirty |-> stale]

\* CampaignAnalyticsSummary.update_metrics on the stored summary
UpdateMetrics(db) ==
    [db EXCEPT !.summary = Aggregate(db.summary, db.rows), !.dirty = FALSE]

\* post_save receiver of DailyAnalytics
update_campaign_summary(db) == UpdateMetrics(db)

\* a post_delete receiver that leaves the summary alone
update_summary_on_delete_noop(db) == db

\* post_delete receiver of DailyAnalytics
update_summary_on_delete(db) == UpdateMetrics(db)

\* row.save() followed by the post_save signal
SaveAndSignal(db, d, row) ==
    LET saved == SaveRow(row)
        rows2 == IF d \in DOMAIN db.rows THEN [db.rows EXCEPT ![d] = saved]
                 ELSE db.rows @@ (d :> saved)
    IN  update_campaign_summary([db EXCEPT !.rows = rows2, !.dirty = TRUE])

\* DailyAnalytics.objects.update_or_create(campaign, date, defaults=m)
UpdateOrCreate(db, d, m) ==
    IF d \in DOMAIN db.rows
    THEN SaveAndSignal(db, d, SetCounters(db.rows[d], m))
    ELSE SaveAndSignal(db, d, NewRow(m))

\* row.delete() followed by the post_delete signal
DeleteAndSignal(db, d) ==
    LET rows2 == [x \in (DOMAIN db.rows) \ {d} |-> db.rows[x]]
    IN  update_summary_on_delete([db EXCEPT !.rows = rows2, !.dirty = TRUE])

\* a batch of daily metrics: for each date either counters or nothing reported
NoReport == [impressions |-> -1, clicks |-> -1, conversions |-> -1, spend |-> -1]

Batches(inputs) == [Dates -> inputs \cup {NoReport}]

\* the upserts of a batch, in date order, from date d on
RECURSIVE ApplyBatch(_, _, _)
ApplyBatch(db, batch, d) ==
    IF d > MaxDate THEN db
    ELSE IF batch[d] = NoReport THEN ApplyBatch(db, batch, d + 1)
    ELSE ApplyBatch(UpdateOrCreate(db, d, batch[d]), batch, d + 1)

CurrentDb == Db(records, summary, dirty)

Commit(db, op) ==
    /\ records' = db.rows
    /\ summary' = db.summary
    /\ dirty' = db.dirty
    /\ lastOp' = op
    /\ UNCHANGED <<job, abVars, compareVars, upsertVars, reportVars>>

\* p_value before any analysis decided: NULL
NoPValue == [stat |-> "null"]

\* an ABTest row; status "absent" stands for the row not existing yet
TestRow(status, start, metric, minSample, winner, sig, p) ==
    [status |-> status, start_date |-> start, success_metric |-> metric,
     min_sample_size |-> minSample, winner |-> winner, is_significant |-> sig,
     p_value |-> p]

NoTest == TestRow("absent", 0, "ctr", 0, "", FALSE, NoPValue)

\* what an analyze call saw when it passed its two gates
NoObservation == [status |-> "none", short |-> {}]

\* analyze requests that may be in flight together
MaxRequests == 2

Requests == 1..MaxRequests

Idle == [pc |-> "idle", mem |-> NoTest, pass |-> 0, obs |-> NoObservation]

\* the ingestion jobs that can run at the same time on one campaign
Jobs == {"sync", "generate"}

\* a job that has read nothing yet
NothingRead == [s |-> DefaultSummary, rows |-> << >>]

JobAt(pc, next, final, read) == [pc |-> pc, next |-> next, final |-> final, read |-> read]

\* nothing returned yet
NoResult ==
    [raised |-> FALSE, significant |-> FALSE, p_value |-> NoPValue,
     winner |-> "None", confidence |-> [kind |-> "absent"],
     metric_a |-> 0, metric_b |-> 0]

\* calculate_statistical_significance(a, b, metric) about to be called
Call(a, b, metric) ==
    [a |-> a, b |-> b, metric |-> metric, called |-> FALSE, result |-> NoResult]

\* no call of calculate_statistical_significance made
NoCall ==
    Call([impressions |-> 0, clicks |-> 0, conversions |-> 0],
         [impressions |-> 0, clicks |-> 0, conversions |-> 0], "ctr")

\* a job that is not inside an upsert
NoUpsert ==
    [pc |-> "idle", date |-> 0, m |-> ZeroCounters, found |-> 0,
     mem |-> [impressions |-> 0, clicks |-> 0, conversions |-> 0, spend |-> 0,
              ctr |-> 0, cpc |-> 0, cpa |-> 0]]

\* ---------------------------------------------------------- weekly report
\* views.py defines WeeklyReportView twice; the module attribute the URL
\* 'reports/weekly/' resolves is the later class, whose get() builds the
\* recommendations inline. The earlier class, with its
\* _generate_weekly_recommendations, is replaced when the module is loaded.

\* the figures of the week a report works from: percentages in hundredths,
\* growth in percent, spend in cents, topScore -1 when there is no campaign
Figures(ctr, conv, growth, spend, roas, ads, active, topScore) ==
    [avg_ctr |-> ctr, conversion_rate |-> conv, click_growth |-> growth,
     total_spend |-> spend, roas |-> roas, ads_generated |-> ads,
     active_campaigns |-> active, top_score |-> topScore]

\* a report request that has not run
Request(f) == [fig |-> f, called |-> FALSE, recs |-> << >>]

NoReportRequest == Request(Figures(0, 0, 0, 0, 0, 0, 0, -1))

\* one recommendation: the rule that emitted it and its 'priority'
Rec(rule, priority) == [rule |-> rule, priority |-> priority]

When(cond, rec) == IF cond THEN <<rec>> ELSE << >>

\* priority_order = {'high': 0, 'medium': 1, 'low': 2}
PriorityOrder(pr) == IF pr = "high" THEN 0 ELSE IF pr = "medium" THEN 1 ELSE 2

IsHigh(r) == PriorityOrder(r.priority) = 0
IsMedium(r) == PriorityOrder(r.priority) = 1
IsLow(r) == PriorityOrder(r.priority) = 2

\* list.sort(key=priority_order): stable, so each priority keeps its order
SortByPriority(recs) ==
    SelectSeq(recs, IsHigh) \o SelectSeq(recs, IsMedium) \o SelectSeq(recs, IsLow)

\* the earlier WeeklyReportView._generate_weekly_recommendations
generate_weekly_recommendations(f) ==
    LET ctrRule == IF f.avg_ctr < 200 THEN <<Rec("improve_ctr", "high")>>
                   ELSE IF f.avg_ctr >= 500 THEN <<Rec("scale_up", "high")>>
                   ELSE << >>
        convRule == When(f.conversion_rate < 500 /\ f.avg_ctr > 200,
                         Rec("optimize_funnel", "high"))
        growthRule == IF f.click_growth < -10 THEN <<Rec("reverse_decline", "high")>>
                      ELSE IF f.click_growth > 20 THEN <<Rec("momentum", "medium")>>
                      ELSE << >>
        contentRule == When(f.ads_generated < 5, Rec("more_variations", "medium"))
        budgetRule == When(f.total_spend > 0 /\ f.roas < 200, Rec("improve_roas", "high"))
        activityRule == When(f.active_campaigns = 0, Rec("launch_campaigns", "high"))
        topRule == When(f.top_score > 70, Rec("scale_top", "medium"))
        sorted == SortByPriority(ctrRule \o convRule \o growthRule \o contentRule
                                 \o budgetRule \o activityRule \o topRule)
    IN  SubSeq(sorted, 1, Min(Len(sorted), 6))

\* the recommendations of the later WeeklyReportView.get, the one served
WeeklyReportView_get(f) ==
    LET ctrRule == IF f.avg_ctr < 200 THEN <<Rec("improve_ctr", "high")>>
                   ELSE IF f.avg_ctr > 500 THEN <<Rec("scale_up", "high")>>
                   ELSE << >>
        contentRule == When(f.ads_generated < 5, Rec("more_variations", "medium"))
        activityRule == When(f.active_campaigns = 0, Rec("launch_campaigns", "high"))
        recommendations == ctrRule \o contentRule \o activityRule
    IN  IF recommendations # << >> THEN recommendations
        ELSE <<Rec("keep_up", "low")>>

\* ---------------------------------------------------------------- actions

Init ==
    /\ records = << >>
    /\ summary = DefaultSummary
    /\ dirty = FALSE
    /\ lastOp = "create_campaign"
    /\ job = [w \in Jobs |-> JobAt("loop", 1, FALSE, NothingRead)]
    /\ test = NoTest
    /\ arms = << >>
    /\ abOp = "none"
    /\ abResult = "none"
    /\ setBy = NoObservation
    /\ req = [r \in Requests |-> Idle]
    /\ cmp = NoCall
    /\ table = << >>
    /\ upsert = [w \in Jobs |-> NoUpsert]
    /\ report = NoReportRequest

\* AdPlatformSyncService.sync_user_campaigns for the campaign: upsert every
\* reported day, then recompute the summary
Sync ==
    \E batch \in Batches(MetricInputs) :
        Commit(UpdateMetrics(ApplyBatch(CurrentDb, batch, 1)), "sync")

\* generate_analytics Command.handle for the campaign: its generated days
\* always have impressions > 0
Generate ==
    \E batch \in Batches({m \in MetricInputs : m.impressions > 0}) :
        Commit(UpdateMetrics(ApplyBatch(CurrentDb, batch, 1)), "generate")

\* admin delete of one DailyAnalytics row
AdminDelete ==
    \E d \in DOMAIN records :
        Commit(DeleteAndSignal(CurrentDb, d), "delete")

\* DailyAnalyticsAdmin.recalculate_metrics: obj.save() on every selected row
RECURSIVE ResaveAll(_, _)
ResaveAll(db, ds) ==
    IF ds = {} THEN db
    ELSE LET d == CHOOSE x \in ds : \A y \in ds : x <= y
         IN  ResaveAll(SaveAndSignal(db, d, db.rows[d]), ds \ {d})

AdminRecalculate ==
    \E ds \in SUBSET (DOMAIN records) :
        /\ ds # {}
        /\ Commit(ResaveAll(CurrentDb, ds), "recalculate")

\* CampaignAnalyticsSummaryAdmin.update_all_metrics: recompute on demand
Refresh ==
    Commit(UpdateMetrics(CurrentDb), "refresh")

Next == Sync \/ Generate \/ AdminDelete \/ AdminRecalculate \/ Refresh

Spec == Init /\ [][Next]_vars

\* ------------------------------------- the ingestion jobs run concurrently
\* Neither job opens a transaction: every query and every save() is its own
\* statement, and statements of the two jobs interleave.

InputsOf(w) ==
    IF w = "generate" THEN {m \in MetricInputs : m.impressions > 0} ELSE MetricInputs

\* the loop body's upsert of one day: the row is written (DailyAnalytics.save)
\* and the post_save receiver starts
JobUpsert(w) ==
    /\ job[w].pc = "loop"
    /\ \E d \in Dates, m \in InputsOf(w) :
        /\ d >= job[w].next
        /\ LET row == IF d \in DOMAIN records THEN SetCounters(records[d], m)
                      ELSE NewRow(m)
           IN  records' = IF d \in DOMAIN records
                          THEN [records EXCEPT ![d] = SaveRow(row)]
                          ELSE records @@ (d :> SaveRow(row))
        /\ job' = [job EXCEPT ![w] = JobAt("fetch", d + 1, FALSE, NothingRead)]
    /\ lastOp' = w
    /\ UNCHANGED <<summary, dirty, abVars, compareVars, upsertVars, reportVars>>

\* the loop is over: the job's own closing get_or_create + update_metrics starts
JobLoopDone(w) ==
    /\ job[w].pc = "loop"
    /\ job' = [job EXCEPT ![w] = JobAt("fetch", @.next, TRUE, NothingRead)]
    /\ UNCHANGED <<analyticsVars, abVars, compareVars, upsertVars, reportVars>>

\* CampaignAnalyticsSummary.objects.get_or_create: the summary row is fetched
JobFetchSummary(w) ==
    /\ job[w].pc = "fetch"
    /\ job' = [job EXCEPT ![w].pc = "read", ![w].read.s = summary]
    /\ UNCHANGED <<analyticsVars, abVars, compareVars, upsertVars, reportVars>>

\* update_metrics, the first sum(): the daily_analytics query is evaluated
JobReadRows(w) ==
    /\ job[w].pc = "read"
    /\ job' = [job EXCEPT ![w].pc = "write", ![w].read.rows = records]
    /\ UNCHANGED <<analyticsVars, abVars, compareVars, upsertVars, reportVars>>

\* update_metrics, self.save(): every field of the fetched summary is written
JobWriteSummary(w) ==
    /\ job[w].pc = "write"
    /\ summary' = Aggregate(job[w].read.s, job[w].read.rows)
    /\ job' = [job EXCEPT ![w] = JobAt(IF @.final THEN "done" ELSE "loop",
                                       @.next, @.final, NothingRead)]
    /\ lastOp' = w
    /\ UNCHANGED <<records, dirty, abVars, compareVars, upsertVars, reportVars>>

NextRace ==
    \E w \in Jobs :
        \/ JobUpsert(w)
        \/ JobLoopDone(w)
        \/ JobFetchSummary(w)
        \/ JobReadRows(w)
        \/ JobWriteSummary(w)

SpecRace == Init /\ [][NextRace]_vars

BothJobsDone == \A w \in Jobs : job[w].pc = "done"

\* C4: once two concurrent ingestion jobs on one campaign have both finished,
\* the stored summary is the rollup of the final rows (here its four totals,
\* the part of the rollup that no earlier summary can influence).
C4_NoLostUpdate ==
    BothJobsDone =>
        /\ summary.total_impressions = SumField(records, DOMAIN records, "impressions")
        /\ summary.total_clicks = SumField(records, DOMAIN records, "clicks")
        /\ summary.total_conversions = SumField(records, DOMAIN records, "conversions")
        /\ summary.total_spend = SumField(records, DOMAIN records, "spend")

\* ---------------------------------- upserts of the two jobs, by statement
\* update_or_create (sync) and get_or_create + save (generate) are a lookup
\* by (campaign, date), then an INSERT when nothing was found or an UPDATE
\* of the row found. unique_together makes the database refuse an INSERT
\* for a key that is there; get_or_create answers the IntegrityError by
\* looking the row up again.

\* the positions in the table of the rows of date d
KeyRows(t, d) == {i \in DOMAIN t : t[i].date = d}

\* a table without the constraint: every INSERT is let in
unique_together_absent(t, d) == TRUE

\* Meta.unique_together = ('campaign', 'date'): the INSERT of date d is let in
unique_together(t, d) == KeyRows(t, d) = {}

\* a stored row: its date and the fields of the DailyAnalytics object
DatedRow(d, row) == row @@ [date |-> d]

\* the fields of a stored row as the object fetched from it
Fetched(r) ==
    [impressions |-> r.impressions, clicks |-> r.clicks,
     conversions |-> r.conversions, spend |-> r.spend,
     ctr |-> r.ctr, cpc |-> r.cpc, cpa |-> r.cpa]

\* the job reaches the upsert of one day of its batch
UpsertBegin(w) ==
    /\ upsert[w].pc = "idle"
    /\ \E d \in Dates, m \in InputsOf(w) :
        upsert' = [upsert EXCEPT ![w] = [NoUpsert EXCEPT !.pc = "get", !.date = d, !.m = m]]
    /\ UNCHANGED <<analyticsVars, job, abVars, compareVars, table, reportVars>>

\* the lookup: SELECT ... WHERE campaign = c AND date = d
UpsertGet(w) ==
    /\ upsert[w].pc = "get"
    /\ LET hits == KeyRows(table, upsert[w].date)
       IN  IF hits = {}
           THEN upsert' = [upsert EXCEPT ![w].pc = "insert"]
           ELSE LET i == CHOOSE x \in hits : \A y \in hits : x <= y
                IN  upsert' = [upsert EXCEPT ![w].pc = "update", ![w].found = i,
                                             ![w].mem = Fetched(table[i])]
    /\ UNCHANGED <<analyticsVars, job, abVars, compareVars, table, reportVars>>

\* create(**defaults): save() and its INSERT, then the post_save receiver;
\* refused by the constraint, the job looks the row up again
UpsertInsert(w) ==
    /\ upsert[w].pc = "insert"
    /\ IF unique_together(table, upsert[w].date)
       THEN /\ table' = Append(table, DatedRow(upsert[w].date,
                                               SaveRow(NewRow(upsert[w].m))))
            /\ summary' = Aggregate(summary, table')
            /\ lastOp' = w
            /\ upsert' = [upsert EXCEPT ![w].pc = "idle"]
       ELSE /\ upsert' = [upsert EXCEPT ![w].pc = "get"]
            /\ UNCHANGED <<table, summary, lastOp, reportVars>>
    /\ UNCHANGED <<records, dirty, job, abVars, compareVars, reportVars>>

\* the counters are set on the object found and save() updates its row by
\* primary key, then the post_save receiver
UpsertUpdate(w) ==
    /\ upsert[w].pc = "update"
    /\ table' = [table EXCEPT ![upsert[w].found] =
                     DatedRow(upsert[w].date,
                              SaveRow(SetCounters(upsert[w].mem, upsert[w].m)))]
    /\ summary' = Aggregate(summary, table')
    /\ lastOp' = w
    /\ upsert' = [upsert EXCEPT ![w].pc = "idle"]
    /\ UNCHANGED <<records, dirty, job, abVars, compareVars, reportVars>>

NextUpsert ==
    \E w \in Jobs :
        \/ UpsertBegin(w)
        \/ UpsertGet(w)
        \/ UpsertInsert(w)
        \/ UpsertUpdate(w)

SpecUpsert == Init /\ [][NextUpsert]_vars

\* job w ends an upsert in this step
UpsertEnds(w) == upsert[w].pc \in {"insert", "update"} /\ upsert'[w].pc = "idle"

\* C20: the table never holds two rows of one (campaign, date), also when
\* the two jobs upsert the same date at once, and an upsert for a date that
\* has a row changes that row's counters and adds none.
C20_OneRowPerDate ==
    [][/\ \A d \in Dates : Cardinality(KeyRows(table', d)) <= 1
       /\ \A w \in Jobs :
            (UpsertEnds(w) /\ KeyRows(table, upsert[w].date) # {}) =>
                /\ Len(table') = Len(table)
                /\ \A i \in KeyRows(table', upsert[w].date) :
                    /\ i \in KeyRows(table, upsert[w].date)
                    /\ table'[i].impressions = upsert[w].m.impressions
                    /\ table'[i].clicks = upsert[w].m.clicks
                    /\ table'[i].conversions = upsert[w].m.conversions
                    /\ table'[i].spend = upsert[w].m.spend]_vars

\* both jobs went for the same missing date; one inserted it, the other was
\* refused, found the row and updated it
C20_Witness ==
    /\ Len(table) = 1
    /\ \A w \in Jobs : upsert[w].pc = "idle" /\ upsert[w].date = table[1].date
    /\ upsert["sync"].found = 0
    /\ upsert["generate"].found = 1
    /\ table[1].impressions = upsert["generate"].m.impressions
    /\ upsert["sync"].m # upsert["generate"].m

\* ------------------------------------------------------------ A/B tests

\* variation names a create request may carry, in the order order_by('name')
\* sorts them
NameOrder == <<"A", "B", "control">>

Names == {NameOrder[i] : i \in 1..Len(NameOrder)}

NamePos(n) == CHOOSE i \in 1..Len(NameOrder) : NameOrder[i] = n

\* counters of one variation (impressions, clicks, conversions)
Arm(i, c, v) == [impressions |-> i, clicks |-> c, conversions |-> v]

\* ABTestVariation.objects.create(...): every counter at its default
NewArm == Arm(0, 0, 0)

ArmInputs ==
    { Arm(5, 1, 0), Arm(20, 2, 0), Arm(20, 12, 0), Arm(20, 12, 10) }

\* success_metric is taken from the request as it comes
MetricNames == {"ctr", "conversion_rate", "roas"}

MinSampleInputs == {10}

STATUS_CHOICES == {"draft", "running", "paused", "completed"}

\* the p-value of a chi-square statistic num/den with one degree of freedom,
\* kept as the statistic it is the survival function of
PValue(num, den) == [stat |-> <<num, den>>]

\* p_value = 1.0, the literal of the short-circuit returns
PValueOne == [stat |-> "one"]

\* ABTestVariation.ctr and .conversion_rate, in hundredths
ArmCtr(a) == IF a.impressions = 0 THEN 0 ELSE Pct2(a.clicks, a.impressions)
ArmConversionRate(a) == IF a.clicks = 0 THEN 0 ELSE Pct2(a.conversions, a.clicks)

Abs(x) == IF x < 0 THEN -x ELSE x

\* chi-square statistic of the 2x2 table [[a, b], [c, d]] as
\* scipy.stats.chi2_contingency computes it (Yates' correction: every cell is
\* moved by min(0.5, |observed - expected|) towards its expectation):
\* N * max(0, 2|ad - bc| - N)^2 / (4 * r1 * r2 * c1 * c2)
\* The quotient is kept in lowest terms and built factor by factor,
\* (e / 2r1) * (e / 2r2) * (N / c1) * (1 / c2), so that the counters of a real
\* test stay within the integers.
RECURSIVE Gcd(_, _)
Gcd(x, y) == IF y = 0 THEN x ELSE Gcd(y, x % y)

Frac(n, d) == LET g == Gcd(n, d) IN <<n \div g, d \div g>>

MulFrac(x, y) ==
    LET u == Frac(x[1], y[2])
        v == Frac(y[1], x[2])
    IN  <<u[1] * v[1], v[2] * u[2]>>

Chi2(a, b, c, d) ==
    LET n == a + b + c + d
        e == 2 * Abs(a * d - b * c) - n
    IN  IF e <= 0 THEN <<0, 1>>
        ELSE MulFrac(MulFrac(Frac(e, 2 * (a + b)), Frac(e, 2 * (c + d))),
                     MulFrac(Frac(n, a + c), Frac(1, b + d)))

Chi2Num(a, b, c, d) == Chi2(a, b, c, d)[1]

Chi2Den(a, b, c, d) == Chi2(a, b, c, d)[2]

\* p_value < 0.05 for one degree of freedom: the statistic exceeds the
\* critical value 3.841459 (compared in thousandths of the denominator)
BelowAlpha(num, den) ==
    LET q == num \div den
        r == num % den
    IN  IF q >= 4 THEN TRUE
        ELSE IF q < 3 THEN FALSE
        ELSE r * 1000 > 841 * den + (den * 459) \div 1000

\* chi2_contingency raises ValueError on a negative cell and on a table whose
\* expected frequencies hold a zero (a zero row or column sum)
Chi2Raises(a, b, c, d) ==
    \/ a < 0 \/ b < 0 \/ c < 0 \/ d < 0
    \/ a + b = 0 \/ c + d = 0 \/ a + c = 0 \/ b + d = 0

\* 'confidence' of a result: the literal 0, (1 - p_value) * 100, or no such key
ConfidenceZero == [kind |-> "zero"]

ConfidenceFromP == [kind |-> "from_p"]

NoConfidence == [kind |-> "absent"]

\* a zero-denominator return that carries no confidence
ShortCircuitNoConfidence ==
    [raised |-> FALSE, significant |-> FALSE, p_value |-> PValueOne,
     winner |-> "None", confidence |-> NoConfidence,
     metric_a |-> 0, metric_b |-> 0]

\* the return of the zero-denominator check, before any table is built
ShortCircuit ==
    [raised |-> FALSE, significant |-> FALSE, p_value |-> PValueOne,
     winner |-> "None", confidence |-> ConfidenceZero,
     metric_a |-> 0, metric_b |-> 0]

\* the return for a metric that is neither 'ctr' nor 'conversion_rate'
UnknownMetric ==
    [raised |-> FALSE, significant |-> FALSE, p_value |-> PValueOne,
     winner |-> "None", confidence |-> NoConfidence,
     metric_a |-> 0, metric_b |-> 0]

\* a comparison that names the higher side whether or not it is significant
CompareProportionsNaming(sa, ta, sb, tb, ma, mb) ==
    IF ta = 0 \/ tb = 0 THEN ShortCircuit
    ELSE IF Chi2Raises(sa, ta - sa, sb, tb - sb)
    THEN [raised |-> TRUE, significant |-> FALSE, p_value |-> NoPValue,
          winner |-> "None", confidence |-> NoConfidence,
          metric_a |-> ma, metric_b |-> mb]
    ELSE LET num == Chi2Num(sa, ta - sa, sb, tb - sb)
             den == Chi2Den(sa, ta - sa, sb, tb - sb)
         IN  [raised |-> FALSE, significant |-> BelowAlpha(num, den),
              p_value |-> PValue(num, den),
              winner |-> IF ma > mb THEN "A" ELSE "B",
              confidence |-> ConfidenceFromP,
              metric_a |-> ma, metric_b |-> mb]

\* the body shared by the two metric branches: successes out of trials
CompareProportions(sa, ta, sb, tb, ma, mb) ==
    IF ta = 0 \/ tb = 0 THEN ShortCircuit
    ELSE IF Chi2Raises(sa, ta - sa, sb, tb - sb)
    THEN [raised |-> TRUE, significant |-> FALSE, p_value |-> NoPValue,
          winner |-> "None", confidence |-> NoConfidence,
          metric_a |-> ma, metric_b |-> mb]
    ELSE LET num == Chi2Num(sa, ta - sa, sb, tb - sb)
             den == Chi2Den(sa, ta - sa, sb, tb - sb)
             sig == BelowAlpha(num, den)
         IN  [raised |-> FALSE, significant |-> sig, p_value |-> PValue(num, den),
              winner |-> IF sig THEN (IF ma > mb THEN "A" ELSE "B") ELSE "None",
              confidence |-> ConfidenceFromP,
              metric_a |-> ma, metric_b |-> mb]

\* ABTestingService.calculate_statistical_significance
calculate_statistical_significance(va, vb, metric) ==
    IF metric = "ctr"
    THEN CompareProportions(va.clicks, va.impressions, vb.clicks, vb.impressions,
                            ArmCtr(va), ArmCtr(vb))
    ELSE IF metric = "conversion_rate"
    THEN CompareProportions(va.conversions, va.clicks, vb.conversions, vb.clicks,
                            ArmConversionRate(va), ArmConversionRate(vb))
    ELSE UnknownMetric

\* ------------------------------- calculate_statistical_significance alone

\* variations with counters of test size, some with a zero denominator, one
\* with more conversions than clicks
SmallArms ==
    { Arm(0, 0, 0), Arm(0, 3, 1), Arm(20, 0, 0), Arm(20, 2, 0), Arm(20, 2, 1),
      Arm(20, 2, 5), Arm(20, 12, 0), Arm(20, 12, 10) }

\* variations with the counters of a live test: the demo test of
\* create_demo_data.py, and two arms whose click rates are both below 0.005%
LargePairs ==
    LET demoA == Arm(8500, 340, 42)
        demoB == Arm(8500, 468, 61)
        rareA == Arm(130000, 6, 0)
        rareB == Arm(130000, 0, 0)
    IN  { <<demoA, demoB>>, <<demoB, demoA>>, <<rareA, rareB>>, <<rareB, rareA>> }

ComparePairs == (SmallArms \X SmallArms) \cup LargePairs

CompareCalls ==
    { Call(pr[1], pr[2], metric) : pr \in ComparePairs, metric \in MetricNames }

InitCompare ==
    /\ records = << >>
    /\ summary = DefaultSummary
    /\ dirty = FALSE
    /\ lastOp = "create_campaign"
    /\ job = [w \in Jobs |-> JobAt("loop", 1, FALSE, NothingRead)]
    /\ test = NoTest
    /\ arms = << >>
    /\ abOp = "none"
    /\ abResult = "none"
    /\ setBy = NoObservation
    /\ req = [r \in Requests |-> Idle]
    /\ cmp \in CompareCalls
    /\ table = << >>
    /\ upsert = [w \in Jobs |-> NoUpsert]
    /\ report = NoReportRequest

\* the call runs; an exception out of it leaves nothing returned
Compare ==
    /\ ~cmp.called
    /\ cmp' = [cmp EXCEPT !.called = TRUE,
                          !.result = calculate_statistical_significance(
                                         cmp.a, cmp.b, cmp.metric)]
    /\ UNCHANGED <<analyticsVars, job, abVars, upsertVars, reportVars>>

\* the caller moves on to its next pair
NextCall ==
    /\ cmp.called
    /\ cmp' \in CompareCalls
    /\ UNCHANGED <<analyticsVars, job, abVars, upsertVars, reportVars>>

NextCompare == Compare \/ NextCall

SpecCompare == InitCompare /\ [][NextCompare]_vars

\* the call came back with a result
Returned == cmp.called /\ ~cmp.result.raised

\* a check that lets every test through
check_minimum_sample_size_always(t, vs) == TRUE

\* a check that is satisfied by one variation at the floor
check_minimum_sample_size_some(t, vs) ==
    \E n \in DOMAIN vs : vs[n].impressions >= t.min_sample_size

\* ABTestingService.check_minimum_sample_size
check_minimum_sample_size(t, vs) ==
    \A n \in DOMAIN vs : vs[n].impressions >= t.min_sample_size

\* list(ab_test.variations.all().order_by('name')): the names in sorted order
RECURSIVE SortedNames(_)
SortedNames(ns) ==
    IF ns = {} THEN << >>
    ELSE LET n == CHOOSE x \in ns : \A y \in ns : NamePos(x) <= NamePos(y)
         IN  <<n>> \o SortedNames(ns \ {n})

\* a loop that compares the first pair only
PairResultsFirstOnly(vs, order, i, j, metric) ==
    <<[variation_a |-> order[1], variation_b |-> order[2],
       result |-> calculate_statistical_significance(
                      vs[order[1]], vs[order[2]], metric)]>>

\* the pairwise results of analyze_test, in i < j order
RECURSIVE PairResults(_, _, _, _, _)
PairResults(vs, order, i, j, metric) ==
    IF i > Len(order) THEN << >>
    ELSE IF j > Len(order) THEN PairResults(vs, order, i + 1, i + 2, metric)
    ELSE <<[variation_a |-> order[i], variation_b |-> order[j],
            result |-> calculate_statistical_significance(
                           vs[order[i]], vs[order[j]], metric)]>>
         \o PairResults(vs, order, i, j + 1, metric)

AnyRaised(results) == \E k \in 1..Len(results) : results[k].result.raised

Outcome(status, t, saved, details) ==
    [status |-> status, test |-> t, saved |-> saved, details |-> details]

\* analyze_test without its status test
analyze_test_any_status(t, armsChecked, armsListed) ==
    IF ~check_minimum_sample_size(t, armsChecked)
    THEN Outcome("insufficient_data", t, FALSE, << >>)
    ELSE IF Cardinality(DOMAIN armsListed) < 2
    THEN Outcome("error_need_2_variations", t, FALSE, << >>)
    ELSE LET order == SortedNames(DOMAIN armsListed)
             results == PairResults(armsListed, order, 1, 2, t.success_metric)
         IN  IF AnyRaised(results) THEN Outcome("raised", t, FALSE, results)
             ELSE IF results[1].result.significant
             THEN Outcome("completed",
                          [t EXCEPT !.winner = results[1].result.winner,
                                    !.is_significant = TRUE,
                                    !.p_value = results[1].result.p_value],
                          TRUE, <<results[1]>>)
             ELSE Outcome("inconclusive", t, FALSE, results)

\* analyze_test saving the winner without the other two fields
analyze_test_winner_only(t, armsChecked, armsListed) ==
    IF t.status # "running" THEN Outcome("error_not_running", t, FALSE, << >>)
    ELSE IF ~check_minimum_sample_size(t, armsChecked)
    THEN Outcome("insufficient_data", t, FALSE, << >>)
    ELSE IF Cardinality(DOMAIN armsListed) < 2
    THEN Outcome("error_need_2_variations", t, FALSE, << >>)
    ELSE LET order == SortedNames(DOMAIN armsListed)
             results == PairResults(armsListed, order, 1, 2, t.success_metric)
         IN  IF AnyRaised(results) THEN Outcome("raised", t, FALSE, results)
             ELSE IF results[1].result.significant
             THEN Outcome("completed",
                          [t EXCEPT !.winner = results[1].result.winner],
                          TRUE, <<results[1]>>)
             ELSE Outcome("inconclusive", t, FALSE, results)

\* analyze_test with the variation count tested before the sample sizes
analyze_test_count_first(t, armsChecked, armsListed) ==
    IF t.status # "running" THEN Outcome("error_not_running", t, FALSE, << >>)
    ELSE IF Cardinality(DOMAIN armsListed) < 2
    THEN Outcome("error_need_2_variations", t, FALSE, << >>)
    ELSE analyze_test_any_status(t, armsChecked, armsListed)

\* ABTestingService.analyze_test on the in-memory test t; armsChecked is what
\* the query of check_minimum_sample_size returned and armsListed what the
\* ordered query returned. The outcome carries the test object as the call
\* leaves it and whether ab_test.save() ran.
analyze_test(t, armsChecked, armsListed) ==
    IF t.status # "running" THEN Outcome("error_not_running", t, FALSE, << >>)
    ELSE IF ~check_minimum_sample_size(t, armsChecked)
    THEN Outcome("insufficient_data", t, FALSE, << >>)
    ELSE IF Cardinality(DOMAIN armsListed) < 2
    THEN Outcome("error_need_2_variations", t, FALSE, << >>)
    ELSE LET order == SortedNames(DOMAIN armsListed)
             results == PairResults(armsListed, order, 1, 2, t.success_metric)
         IN  IF AnyRaised(results) THEN Outcome("raised", t, FALSE, results)
             ELSE IF results[1].result.significant
             THEN Outcome("completed",
                          [t EXCEPT !.winner = results[1].result.winner,
                                    !.is_significant = TRUE,
                                    !.p_value = results[1].result.p_value],
                          TRUE, <<results[1]>>)
             ELSE Outcome("inconclusive", t, FALSE, results)

\* ------------------------------------------------ A/B tests: operations

Exists == test.status # "absent"

Triple(t) == <<t.winner, t.is_significant, t.p_value>>

\* the facts an analyze call read at its gates: the status of the object it
\* holds and the variations below the floor among those it queried
Observation(t, armsChecked) ==
    [status |-> t.status,
     short |-> {n \in DOMAIN armsChecked :
                    armsChecked[n].impressions < t.min_sample_size}]

\* CreateABTestView.post: the test in draft and one variation per name given
CreateTest ==
    /\ ~Exists
    /\ \E ns \in SUBSET Names, metric \in MetricNames, minSample \in MinSampleInputs :
        /\ test' = TestRow("draft", 0, metric, minSample, "", FALSE, NoPValue)
        /\ arms' = [n \in ns |-> NewArm]
    /\ abOp' = "create"
    /\ UNCHANGED <<abResult, setBy, req, analyticsVars, job, compareVars, upsertVars, reportVars>>

\* a start that does not count the variations
StartTestUncounted ==
    /\ Exists
    /\ abOp' = "start"
    /\ test' = [test EXCEPT !.status = "running", !.start_date = 1]
    /\ UNCHANGED <<arms, abResult, setBy, req, analyticsVars, job, compareVars, upsertVars, reportVars>>

\* StartABTestView.post
StartTest ==
    /\ Exists
    /\ IF Cardinality(DOMAIN arms) < 2
       THEN /\ abOp' = "start_rejected"
            /\ UNCHANGED test
       ELSE /\ abOp' = "start"
            /\ test' = [test EXCEPT !.status = "running", !.start_date = 1]
    /\ UNCHANGED <<arms, abResult, setBy, req, analyticsVars, job, compareVars, upsertVars, reportVars>>

\* ABTestAdmin change form: the manual status transitions
AdminSetStatus ==
    /\ Exists
    /\ \E st \in STATUS_CHOICES :
        /\ st # test.status
        /\ test' = [test EXCEPT !.status = st]
    /\ abOp' = "admin_status"
    /\ UNCHANGED <<arms, abResult, setBy, req, analyticsVars, job, compareVars, upsertVars, reportVars>>

\* ABTestVariationAdmin change form: the counters of a variation as delivered
SetCountersFrom(inputs) ==
    /\ Exists
    /\ \E n \in DOMAIN arms, a \in inputs :
        /\ a # arms[n]
        /\ arms' = [arms EXCEPT ![n] = a]
    /\ abOp' = "admin_counters"
    /\ UNCHANGED <<test, abResult, setBy, req, analyticsVars, job, compareVars, upsertVars, reportVars>>

AdminSetCounters == SetCountersFrom(ArmInputs)

\* ABTestVariationAdmin delete of one variation
AdminDeleteVariation ==
    /\ Exists
    /\ \E n \in DOMAIN arms :
        arms' = [x \in (DOMAIN arms) \ {n} |-> arms[x]]
    /\ abOp' = "admin_delete_variation"
    /\ UNCHANGED <<test, abResult, setBy, req, analyticsVars, job, compareVars, upsertVars, reportVars>>

\* AnalyzeABTestView.get run to completion: analyze_test, then get_recommendation,
\* which calls analyze_test again on the same object. An exception out of the
\* first call ends the request.
AnalyzeRequest ==
    /\ Exists
    /\ LET first == analyze_test(test, arms, arms)
           second == IF first.status = "raised" THEN first
                     ELSE analyze_test(first.test, arms, arms)
       IN  /\ test' = IF second.saved THEN second.test
                      ELSE IF first.saved THEN first.test ELSE test
           /\ abResult' = first.status
           /\ setBy' = IF second.saved THEN Observation(first.test, arms)
                       ELSE IF first.saved THEN Observation(test, arms)
                       ELSE setBy
    /\ abOp' = "analyze"
    /\ UNCHANGED <<arms, req, analyticsVars, job, compareVars, upsertVars, reportVars>>

NextAB ==
    \/ CreateTest
    \/ StartTest
    \/ AdminSetStatus
    \/ AdminSetCounters
    \/ AdminDeleteVariation
    \/ AnalyzeRequest

SpecAB == Init /\ [][NextAB]_vars

\* --------------------------------------------------- claims on A/B tests

\* the first comparison analyze_test makes on the stored variations
FirstComparison ==
    PairResults(arms, SortedNames(DOMAIN arms), 1, 2, test.success_metric)[1].result

\* C7: when analyze finds every variation at the floor and the first pairwise
\* comparison significant, it persists that comparison's winner and p-value
\* with is_significant = true, and the test's status becomes completed.
C7_SignificantFirstPairCompletes ==
    (abOp = "analyze" /\ abResult = "completed") =>
        /\ test.winner = FirstComparison.winner
        /\ test.p_value = FirstComparison.p_value
        /\ test.is_significant
        /\ test.status = "completed"

\* C8: a completed test never returns to running: no operation of the test
\* API, start_test in particular, takes its status from completed to running.
C8_CompletedNeverRestarts ==
    [][(test.status = "completed" /\ abOp' # "admin_status")
            => test'.status # "running"]_vars

\* C9: winner, is_significant and p_value change only in an analyze call that
\* saw status running and no variation below min_sample_size.  The steps are
\* those of the test API and of the admin edits of status and counters; a
\* hand edit of the three fields themselves in the admin form is not a step.
C9_DecisionOnlyByGatedAnalyze ==
    [][Triple(test') # Triple(test) =>
            /\ abOp' = "analyze"
            /\ setBy'.status = "running"
            /\ setBy'.short = {}]_vars

C9_Witness ==
    /\ abOp = "analyze"
    /\ abResult = "completed"
    /\ test.is_significant
    /\ test.winner \in {"A", "B"}
    /\ Cardinality(DOMAIN arms) = 3
    /\ setBy.status = "running"

\* the step is one analyze request on the stored test
AnalyzeStep == abOp' = "analyze"

BelowFloor == \E n \in DOMAIN arms : arms[n].impressions < test.min_sample_size

\* C15: analyze on a test that is not running returns the error 'Test is not
\* running' and changes no field of the test.
C15_NotRunningIsRejected ==
    [][(AnalyzeStep /\ test.status # "running") =>
            (abResult' = "error_not_running" /\ test' = test)]_vars

C15_Witness ==
    /\ abOp = "analyze"
    /\ abResult = "error_not_running"
    /\ test.status = "paused"
    /\ Cardinality(DOMAIN arms) >= 2
    /\ ~BelowFloor

\* C16: analyze on a running test with a variation below min_sample_size
\* returns 'insufficient_data', does not touch winner, is_significant and
\* p_value, and leaves the test running.
C16_BelowFloorIsInsufficient ==
    [][(AnalyzeStep /\ test.status = "running" /\ BelowFloor) =>
            /\ abResult' = "insufficient_data"
            /\ Triple(test') = Triple(test)
            /\ test'.status = "running"]_vars

C16_Witness ==
    /\ abOp = "analyze"
    /\ abResult = "insufficient_data"
    /\ test.status = "running"
    /\ Cardinality(DOMAIN arms) >= 2
    /\ BelowFloor
    /\ test.winner = "" /\ ~test.is_significant /\ test.p_value = NoPValue

\* C17 as stated: analyze on a running test with fewer than two variations
\* returns 'Need at least 2 variations' and changes nothing, whatever the
\* impressions of the variations it has.
C17_TooFewVariationsAlways ==
    [][(AnalyzeStep /\ test.status = "running" /\ Cardinality(DOMAIN arms) < 2) =>
            (abResult' = "error_need_2_variations" /\ test' = test)]_vars

\* C17: analyze on a running test with fewer than two variations, none of
\* them below min_sample_size, returns 'Need at least 2 variations' and
\* changes nothing; with its one variation below the floor the result is
\* 'insufficient_data', and nothing changes either.
C17_TooFewVariations ==
    [][(AnalyzeStep /\ test.status = "running" /\ Cardinality(DOMAIN arms) < 2) =>
            /\ test' = test
            /\ abResult' = IF BelowFloor THEN "insufficient_data"
                           ELSE "error_need_2_variations"]_vars

C17_Witness ==
    /\ abOp = "analyze"
    /\ abResult = "error_need_2_variations"
    /\ test.status = "running"
    /\ Cardinality(DOMAIN arms) = 1
    /\ ~BelowFloor

\* the unordered pairs of stored variations, lower name first
StoredPairs ==
    {pr \in (DOMAIN arms) \X (DOMAIN arms) : NamePos(pr[1]) < NamePos(pr[2])}

StoredComparison(pr) ==
    calculate_statistical_significance(arms[pr[1]], arms[pr[2]], test.success_metric)

\* every pair compares to a result that is not significant
NoPairSignificant ==
    \A pr \in StoredPairs :
        ~StoredComparison(pr).raised /\ ~StoredComparison(pr).significant

\* the details carry exactly one entry for every pair
DetailsCoverPairs(details) ==
    /\ Len(details) = Cardinality(StoredPairs)
    /\ \A pr \in StoredPairs :
        \E k \in 1..Len(details) :
            /\ details[k].variation_a = pr[1]
            /\ details[k].variation_b = pr[2]
            /\ details[k].result = StoredComparison(pr)

StartStep == abOp' \in {"start", "start_rejected"}

StoredMetric(n) ==
    IF test.success_metric = "ctr" THEN ArmCtr(arms[n])
    ELSE ArmConversionRate(arms[n])

\* the name of the variation of the first compared pair with the higher metric
HigherOfFirstPair ==
    LET order == SortedNames(DOMAIN arms)
    IN  IF StoredMetric(order[1]) > StoredMetric(order[2]) THEN order[1]
        ELSE order[2]

\* C28: the winner analyze persists is the name of one of the test's
\* variations: of the first compared pair, the one with the higher metric.
C28_WinnerIsAVariationName ==
    (abOp = "analyze" /\ abResult = "completed") =>
        /\ test.winner \in DOMAIN arms
        /\ test.winner = HigherOfFirstPair

\* C29: once a winner is persisted, no later analyze call replaces it with
\* another one.
C29_WinnerIsNeverReplaced ==
    [][(AnalyzeStep /\ test.winner # "") => test'.winner = test.winner]_vars

\* C30: is_significant is true exactly when winner is non-empty and exactly
\* when p_value is not null.
C30_TripleConsistent ==
    Exists =>
        /\ test.is_significant <=> test.winner # ""
        /\ test.is_significant <=> test.p_value # NoPValue

C30_Witness ==
    /\ abOp = "analyze"
    /\ abResult = "completed"
    /\ test.success_metric = "conversion_rate"
    /\ test.is_significant
    /\ test.winner # ""
    /\ test.p_value # NoPValue

\* ------------------------------------- analyze requests run concurrently
\* Each query and each save() of a request is its own statement; the admin's
\* edits and other requests interleave with them.

InFlight(pc, mem, pass, obs) == [pc |-> pc, mem |-> mem, pass |-> pass, obs |-> obs]

\* the call returned: get_recommendation makes the second call, then the
\* request is over
AfterCall(q) ==
    IF q.pass = 1 THEN InFlight("gate", q.mem, 2, NoObservation) ELSE Idle

\* AnalyzeABTestView.get: ABTest.objects.get(...)
ReqFetch(r) ==
    /\ Exists
    /\ req[r].pc = "idle"
    /\ req' = [req EXCEPT ![r] = InFlight("gate", test, 1, NoObservation)]
    /\ abOp' = "analyze_fetch"
    /\ UNCHANGED <<test, arms, abResult, setBy, analyticsVars, job, compareVars, upsertVars, reportVars>>

\* analyze_test up to the minimum-sample gate: the status test on the object
\* in memory and the query of check_minimum_sample_size
ReqGate(r) ==
    /\ req[r].pc = "gate"
    /\ LET q == req[r]
       IN  IF q.mem.status # "running" \/ ~check_minimum_sample_size(q.mem, arms)
           THEN req' = [req EXCEPT ![r] = AfterCall(q)]
           ELSE req' = [req EXCEPT ![r] =
                            InFlight("list", q.mem, q.pass, Observation(q.mem, arms))]
    /\ abOp' = "analyze_gate"
    /\ UNCHANGED <<test, arms, abResult, setBy, analyticsVars, job, compareVars, upsertVars, reportVars>>

\* analyze_test from the ordered variations query to the decision
ReqList(r) ==
    /\ req[r].pc = "list"
    /\ LET q == req[r]
           out == analyze_test(q.mem, arms, arms)
       IN  IF out.status = "raised" THEN req' = [req EXCEPT ![r] = Idle]
           ELSE IF out.saved
           THEN req' = [req EXCEPT ![r] = InFlight("save", out.test, q.pass, q.obs)]
           ELSE req' = [req EXCEPT ![r] = AfterCall(q)]
    /\ abOp' = "analyze_list"
    /\ UNCHANGED <<test, arms, abResult, setBy, analyticsVars, job, compareVars, upsertVars, reportVars>>

\* ab_test.save(): every field of the object in memory is written
ReqSave(r) ==
    /\ req[r].pc = "save"
    /\ test' = req[r].mem
    /\ setBy' = req[r].obs
    /\ abResult' = "completed"
    /\ req' = [req EXCEPT ![r] = AfterCall(req[r])]
    /\ abOp' = "analyze_save"
    /\ UNCHANGED <<arms, analyticsVars, job, compareVars, upsertVars, reportVars>>

\* the counters delivered while the requests are in flight
RaceArmInputs == {Arm(20, 2, 0), Arm(20, 12, 0)}

RaceTraffic == SetCountersFrom(RaceArmInputs)

\* a started two-variation test on ctr with traffic recorded (CreateTest,
\* AdminSetCounters twice and StartTest lead here), no request in flight
InitABRace ==
    /\ records = << >>
    /\ summary = DefaultSummary
    /\ dirty = FALSE
    /\ lastOp = "create_campaign"
    /\ job = [w \in Jobs |-> JobAt("loop", 1, FALSE, NothingRead)]
    /\ test = TestRow("running", 1, "ctr", 10, "", FALSE, NoPValue)
    /\ arms = [n \in {"A", "B"} |-> IF n = "A" THEN Arm(20, 2, 0) ELSE Arm(20, 12, 0)]
    /\ abOp = "start"
    /\ abResult = "none"
    /\ setBy = NoObservation
    /\ req = [r \in Requests |-> Idle]
    /\ cmp = NoCall
    /\ table = << >>
    /\ upsert = [w \in Jobs |-> NoUpsert]
    /\ report = NoReportRequest

NextABRace ==
    \/ StartTest
    \/ AdminSetStatus
    \/ RaceTraffic
    \/ \E r \in Requests : ReqFetch(r) \/ ReqGate(r) \/ ReqList(r) \/ ReqSave(r)

SpecABRace == InitABRace /\ [][NextABRace]_vars

\* C10: when the test was changed between an analyze call's read of it and
\* its save, the save neither writes stale values over that change nor
\* persists a winner for a test that is no longer running.
C10_SaveRespectsConcurrentChange ==
    [][\A r \in Requests :
            (req[r].pc = "save" /\ req'[r].pc # "save") =>
                /\ test.status = "running"
                /\ test'.status = test.status
                /\ test'.start_date = test.start_date]_vars

\* ------------------------------------- _calculate_performance_score alone

\* averages on either side of every threshold of the rubric, in hundredths
CtrLevels == {0, 99, 100, 299, 300, 499, 500, 1200}

ConvLevels == {0, 199, 200, 499, 500, 999, 1000, 2500}

RoasLevels == {0, 99, 100, 199, 200, 299, 300, 499, 500, 900}

\* the summary object inside update_metrics once its averages are assigned
ScoreInputs ==
    { [DefaultSummary EXCEPT !.avg_ctr = c, !.avg_conversion_rate = v, !.roas = r] :
        c \in CtrLevels, v \in ConvLevels, r \in RoasLevels }

InitScore ==
    /\ records = << >>
    /\ summary \in ScoreInputs
    /\ dirty = FALSE
    /\ lastOp = "averages"
    /\ job = [w \in Jobs |-> JobAt("loop", 1, FALSE, NothingRead)]
    /\ test = NoTest
    /\ arms = << >>
    /\ abOp = "none"
    /\ abResult = "none"
    /\ setBy = NoObservation
    /\ req = [r \in Requests |-> Idle]
    /\ cmp = NoCall
    /\ table = << >>
    /\ upsert = [w \in Jobs |-> NoUpsert]
    /\ report = NoReportRequest

\* self.performance_score = self._calculate_performance_score()
Score ==
    /\ lastOp = "averages"
    /\ summary' = [summary EXCEPT !.performance_score = CalculatePerformanceScore(summary)]
    /\ lastOp' = "score"
    /\ UNCHANGED <<records, dirty, job, abVars, compareVars, upsertVars, reportVars>>

\* a later update_metrics assigns other averages
NextAverages ==
    /\ lastOp = "score"
    /\ \E c \in CtrLevels, v \in ConvLevels, r \in RoasLevels :
        summary' = [summary EXCEPT !.avg_ctr = c, !.avg_conversion_rate = v, !.roas = r]
    /\ lastOp' = "averages"
    /\ UNCHANGED <<records, dirty, job, abVars, compareVars, upsertVars, reportVars>>

NextScore == Score \/ NextAverages

SpecScore == InitScore /\ [][NextScore]_vars

\* the score was computed from the averages the summary holds
Scored == lastOp = "score"

\* --------------------------------------------------- weekly report alone

CtrFigures == {0, 199, 200, 201, 499, 500, 501}

ReportFigures ==
    { Figures(ctr, conv, growth, spend, roas, ads, active, topScore) :
        ctr \in CtrFigures, conv \in {300, 500}, growth \in {-11, 21},
        spend \in {10000}, roas \in {100, 200}, ads \in {0, 5},
        active \in {0, 1}, topScore \in {-1, 80} }

InitReport ==
    /\ records = << >>
    /\ summary = DefaultSummary
    /\ dirty = FALSE
    /\ lastOp = "create_campaign"
    /\ job = [w \in Jobs |-> JobAt("loop", 1, FALSE, NothingRead)]
    /\ test = NoTest
    /\ arms = << >>
    /\ abOp = "none"
    /\ abResult = "none"
    /\ setBy = NoObservation
    /\ req = [r \in Requests |-> Idle]
    /\ cmp = NoCall
    /\ table = << >>
    /\ upsert = [w \in Jobs |-> NoUpsert]
    /\ report \in {Request(f) : f \in ReportFigures}

\* GET reports/weekly/
WeeklyReport ==
    /\ ~report.called
    /\ report' = [report EXCEPT !.called = TRUE,
                                !.recs = WeeklyReportView_get(report.fig)]
    /\ UNCHANGED <<analyticsVars, job, abVars, compareVars, upsertVars>>

\* the next request, on the figures of another week
NextWeek ==
    /\ report.called
    /\ \E f \in ReportFigures : report' = Request(f)
    /\ UNCHANGED <<analyticsVars, job, abVars, compareVars, upsertVars>>

NextReport == WeeklyReport \/ NextWeek

SpecReport == InitReport /\ [][NextReport]_vars

\* ------------------------------------------------- claims on the summary

\* what a recompute from scratch (a summary row at its defaults) gives
FromScratch(rows) == Aggregate(DefaultSummary, rows)

\* C1: after any sequence of creates, in-place updates and deletes, each with
\* its automatic recompute, every summary field equals the value recomputed
\* from scratch over the current rows.
C1_SummaryIsFunctionOfRecords == summary = FromScratch(records)

\* C2: a recompute on a campaign with zero rows leaves the four totals at
\* zero and performance_score at 0.
C2_EmptyCampaignIsZero ==
    (DOMAIN records = {}) =>
        /\ summary.total_impressions = 0
        /\ summary.total_clicks = 0
        /\ summary.total_conversions = 0
        /\ summary.total_spend = 0
        /\ summary.performance_score = 0

\* DerivedMetrics of section 4.1 applied to a row's counters
DerivedCtr(row) == IF row.impressions > 0 THEN Pct2(row.clicks, row.impressions) ELSE 0
DerivedCpc(row) == IF row.clicks > 0 THEN Cost2(row.spend, row.clicks) ELSE 0
DerivedCpa(row) == IF row.conversions > 0 THEN Cost2(row.spend, row.conversions) ELSE 0

\* C3: after every save of a row its stored ctr, cpc and cpa are the derived
\* metrics of its current counters (0 where the denominator is 0).
C3_DerivedFieldsMatchCounters ==
    \A d \in DOMAIN records :
        /\ records[d].ctr = DerivedCtr(records[d])
        /\ records[d].cpc = DerivedCpc(records[d])
        /\ records[d].cpa = DerivedCpa(records[d])

\* C5: with no operation in progress, the summary has been recomputed after
\* the last create, update or delete of a row of its campaign.
C5_RecomputedAfterEveryMutation == dirty = FALSE

C5_Witness ==
    /\ lastOp = "delete"
    /\ DOMAIN records # {}
    /\ summary.total_impressions = SumField(records, DOMAIN records, "impressions")
    /\ ~dirty

\* C6: recomputing again with the rows unchanged leaves every field of the
\* summary as the previous recompute left it.
C6_RecomputeIdempotent ==
    /\ Aggregate(summary, records) = summary
    /\ Aggregate(Aggregate(summary, records), records) = Aggregate(summary, records)

C6_Witness ==
    /\ lastOp = "refresh"
    /\ DOMAIN records # {}
    /\ summary.total_clicks > 0

\* C21: a second upsert of the same date with the same counters leaves the
\* rows and the summary as the first upsert left them: no row is added and
\* no total is counted twice.
C21_UpsertTwiceIsUpsertOnce ==
    \A d \in Dates, m \in MetricInputs :
        LET once  == UpdateOrCreate(CurrentDb, d, m)
            twice == UpdateOrCreate(once, d, m)
        IN  /\ DOMAIN twice.rows = DOMAIN once.rows
            /\ twice.rows = once.rows
            /\ twice.summary = once.summary

\* a sync has just re-delivered counters that were stored already
C21_Witness ==
    /\ lastOp = "sync"
    /\ Cardinality(DOMAIN records) = 2
    /\ summary.total_impressions > 0
    /\ \E d \in DOMAIN records :
        /\ records[d].impressions > 0
        /\ UpdateOrCreate(CurrentDb, d,
                          Counters(records[d].impressions, records[d].clicks,
                                   records[d].conversions, records[d].spend))
                = CurrentDb

\* the totals are the sums over the stored rows
TotalsAreSums ==
    /\ summary.total_impressions = SumField(records, DOMAIN records, "impressions")
    /\ summary.total_clicks = SumField(records, DOMAIN records, "clicks")
    /\ summary.total_conversions = SumField(records, DOMAIN records, "conversions")
    /\ summary.total_spend = SumField(records, DOMAIN records, "spend")

\* C22: after a recompute the four totals are the sums over the campaign's
\* rows, and avg_ctr, avg_cpc, avg_conversion_rate and roas are the derived
\* metrics of those totals (0 when the denominator is 0), not means of the
\* per-day values.
C22_AveragesDerivedFromTotals ==
    /\ TotalsAreSums
    /\ summary.avg_ctr =
            (IF summary.total_impressions > 0
             THEN Pct2(summary.total_clicks, summary.total_impressions) ELSE 0)
    /\ summary.avg_cpc =
            (IF summary.total_clicks > 0
             THEN Cost2(summary.total_spend, summary.total_clicks) ELSE 0)
    /\ summary.avg_conversion_rate =
            (IF summary.total_clicks > 0
             THEN Pct2(summary.total_conversions, summary.total_clicks) ELSE 0)
    /\ summary.roas =
            (IF summary.total_spend > 0
             THEN Roas2(summary.total_conversions, summary.total_spend) ELSE 0)

\* the rubric as a count of thresholds reached, ten points each
BandPoints(x, thresholds) == 10 * Cardinality({t \in thresholds : x >= t})

RubricScore(s) ==
    Min(100, BandPoints(s.avg_ctr, {100, 300, 500})
             + BandPoints(s.avg_conversion_rate, {200, 500, 1000})
             + BandPoints(s.roas, {100, 200, 300, 500}))

\* C23: performance_score is min(100, ctr band + conversion band + roas
\* band), with bands 30/20/10/0 at avg_ctr 5/3/1, 30/20/10/0 at
\* avg_conversion_rate 10/5/2 and 40/30/20/10/0 at roas 5/3/2/1, each band
\* looking at its own metric only.
C23_ScoreIsTheRubric ==
    Scored => summary.performance_score = RubricScore(summary)

C23_Witness ==
    /\ Scored
    /\ summary.avg_ctr = 500
    /\ summary.avg_conversion_rate = 499
    /\ summary.roas = 200
    /\ summary.performance_score = 60

\* C24: performance_score is an integer from 0 to 100.
C24_ScoreWithinBounds ==
    summary.performance_score \in 0..100

C24_Witness ==
    /\ Scored
    /\ summary.avg_ctr = 1200
    /\ summary.avg_conversion_rate = 2500
    /\ summary.roas = 900
    /\ summary.performance_score = 100

\* C25: with avg_conversion_rate and roas fixed, a higher avg_ctr never
\* gives a lower score.
C25_ScoreMonotoneInCtr ==
    Scored =>
        \A c \in CtrLevels :
            c >= summary.avg_ctr =>
                CalculatePerformanceScore([summary EXCEPT !.avg_ctr = c])
                    >= summary.performance_score

C25_Witness ==
    /\ Scored
    /\ summary.avg_ctr = 299
    /\ CalculatePerformanceScore([summary EXCEPT !.avg_ctr = 300])
            = summary.performance_score + 10

\* ------------------------------------------- claims on the weekly report

Rules(recs) == {recs[k].rule : k \in 1..Len(recs)}

\* the rule table, in the order the spec lists it
RuleTable ==
    <<"scale_up", "improve_ctr", "optimize_funnel", "reverse_decline", "momentum",
      "more_variations", "improve_roas", "launch_campaigns", "scale_top", "keep_up">>

RulePos(rule) == CHOOSE i \in 1..Len(RuleTable) : RuleTable[i] = rule

\* C26: the recommendations come ordered by priority, high before medium
\* before low, equal priorities in rule-table order, and there are at most
\* six of them.
C26_RecommendationsOrdered ==
    report.called =>
        /\ Len(report.recs) <= 6
        /\ \A i, j \in 1..Len(report.recs) :
            i < j =>
                /\ PriorityOrder(report.recs[i].priority)
                        <= PriorityOrder(report.recs[j].priority)
                /\ report.recs[i].priority = report.recs[j].priority =>
                        RulePos(report.recs[i].rule) < RulePos(report.recs[j].rule)

\* C27: 'improve CTR' is recommended exactly when avg_ctr < 2 and 'scale up'
\* exactly when avg_ctr >= 5, both with high priority and never together.
C27_CtrRule ==
    report.called =>
        /\ Rec("improve_ctr", "high") \in
                {report.recs[k] : k \in 1..Len(report.recs)}
                    <=> report.fig.avg_ctr < 200
        /\ Rec("scale_up", "high") \in
                {report.recs[k] : k \in 1..Len(report.recs)}
                    <=> report.fig.avg_ctr >= 500
        /\ ~({"improve_ctr", "scale_up"} \subseteq Rules(report.recs))

\* ------------------------------------ claims on the significance function

\* C11: a result that is not significant names no winner.
C11_NoWinnerWithoutSignificance ==
    (Returned /\ ~cmp.result.significant) => cmp.result.winner = "None"

C11_Witness ==
    /\ Returned
    /\ cmp.metric = "ctr"
    /\ cmp.a.impressions > 0 /\ cmp.b.impressions > 0
    /\ cmp.result.metric_a # cmp.result.metric_b
    /\ ~cmp.result.significant
    /\ cmp.result.winner = "None"

\* C12: for non-negative counters and either metric the call returns a
\* result; it never ends in an exception.
C12_CompareNeverRaises ==
    (cmp.called /\ cmp.metric \in {"ctr", "conversion_rate"}) => ~cmp.result.raised

\* C13: with a zero denominator for the metric (impressions for ctr, clicks
\* for conversion_rate) on either side, the call returns significant = false,
\* p_value = 1.0, no winner and confidence 0, and the table is never built.
ZeroDenominator ==
    \/ cmp.metric = "ctr" /\ (cmp.a.impressions = 0 \/ cmp.b.impressions = 0)
    \/ cmp.metric = "conversion_rate" /\ (cmp.a.clicks = 0 \/ cmp.b.clicks = 0)

C13_ZeroDenominatorShortCircuits ==
    (cmp.called /\ ZeroDenominator) =>
        /\ ~cmp.result.raised
        /\ ~cmp.result.significant
        /\ cmp.result.p_value = PValueOne
        /\ cmp.result.winner = "None"
        /\ cmp.result.confidence = ConfidenceZero

C13_Witness ==
    /\ cmp.called
    /\ cmp.metric = "conversion_rate"
    /\ cmp.a.clicks = 0 /\ cmp.a.impressions > 0
    /\ cmp.b.clicks > 0
    /\ cmp.result.p_value = PValueOne

\* the metric as a rate, compared without rounding: s1/t1 > s2/t2
RawHigher(s1, t1, s2, t2) == s1 * t2 > s2 * t1

RawAHigher ==
    IF cmp.metric = "ctr"
    THEN RawHigher(cmp.a.clicks, cmp.a.impressions, cmp.b.clicks, cmp.b.impressions)
    ELSE RawHigher(cmp.a.conversions, cmp.a.clicks, cmp.b.conversions, cmp.b.clicks)

RawBHigher ==
    IF cmp.metric = "ctr"
    THEN RawHigher(cmp.b.clicks, cmp.b.impressions, cmp.a.clicks, cmp.a.impressions)
    ELSE RawHigher(cmp.b.conversions, cmp.b.clicks, cmp.a.conversions, cmp.a.clicks)

\* C14: a significant result names the variation with the higher metric:
\* 'A' only when A's metric is above B's, 'B' only when B's is above A's,
\* whether the metric is read as the rate or as the rounded percentage.
C14_WinnerHasHigherMetric ==
    (Returned /\ cmp.result.significant) =>
        /\ cmp.result.winner = "A" =>
                (cmp.result.metric_a > cmp.result.metric_b \/ RawAHigher)
        /\ cmp.result.winner = "B" =>
                (cmp.result.metric_b > cmp.result.metric_a \/ RawBHigher)

====
